---- MODULE Spec2Model ----
(***************************************************************************)
(* A model of degenerexp: the NFA with its structural operators            *)
(* (src/src/fsm.hpp), Thompson's construction (src/src/thompson.hpp), the  *)
(* shunting-yard parser (src/src/parser.hpp) and the subset construction   *)
(* and simulation of the DFA (src/src/fsm.hpp).                            *)
(*                                                                         *)
(* An nfa is modelled by its transition_table_: a function from            *)
(* 0..size-1 to rows, each row a function from 0..size-1 to a label.       *)
(* A label is an int: 0 is "no edge", epsilon is -1, any other value is a  *)
(* symbol (a character's code).  The member input_language_ of nfa is      *)
(* never read by the code and is not modelled.                             *)
(***************************************************************************)
EXTENDS Integers, Sequences, FiniteSets, TLC

\* ------------------------------------------------------------------------
\* Labels and characters
\* ------------------------------------------------------------------------

\* fsm::epsilon
epsilon == -1

\* The value of a cell that holds no edge (a value-initialised int).
no_edge == 0

\* The characters the parser's switch tells apart, by their codes.
LPAREN == 40
RPAREN == 41
STAR == 42
PLUS == 43
QUESTION == 63
PIPE == 124

\* The literal characters of the test patterns.
CH_a == 97
CH_b == 98
CH_c == 99
CH_d == 100
CH_e == 101

\* ------------------------------------------------------------------------
\* Bounds
\* ------------------------------------------------------------------------

\* Longest pattern of the exhaustive pattern set.
MaxPatLen == 3

\* Number of parse() calls made on one parser object.
MaxCalls == 2

\* Capacity of the worklist of the subset construction: a push beyond it
\* runs out of memory (std::bad_alloc).
MaxWorklist == 6

\* Longest input of the exhaustive input set of simulate.
MaxInputLen == 2

\* Number of builder applications of the automata the DFA is built from.
MaxOps == 2

\* Largest size of the hand-written (not Thompson-built) automata.
MaxRawSize == 1

\* ------------------------------------------------------------------------
\* nfa (src/src/fsm.hpp)
\* ------------------------------------------------------------------------

\* nfa::size()
size(t) == Cardinality(DOMAIN t)

\* nfa::start_state()
start_state(t) == 0

\* nfa::final_state()
final_state(t) == size(t) - 1

\* nfa::is_legal_state
is_legal_state(t, s) == s >= 0 /\ s < size(t)

\* The value an operation that throws std::invalid_argument leaves in place
\* of an automaton: the table of no state, which no nfa has (size >= 1).
Thrown == << >>

\* nfa::nfa(size): size rows of size cells, all without an edge.
nfa_new(n) ==
    IF n < 1 THEN Thrown
    ELSE [i \in 0..(n - 1) |-> [j \in 0..(n - 1) |-> no_edge]]

\* nfa::add_transition: overwrites the cell (last write wins).
add_transition(t, from, to, input) ==
    IF t = Thrown \/ ~is_legal_state(t, from) \/ ~is_legal_state(t, to)
    THEN Thrown
    ELSE [t EXCEPT ![from][to] = input]

\* The two resize calls of append_empty_states and prepend_empty_states:
\* new rows and new cells are value-initialised.
Resized(t, new_size) ==
    [i \in 0..(new_size - 1) |->
        [j \in 0..(new_size - 1) |->
            IF i < size(t) /\ j < size(t) THEN t[i][j] ELSE no_edge]]

\* nfa::append_empty_states
append_empty_states(t, n) ==
    IF t = Thrown \/ n < 1 THEN Thrown
    ELSE Resized(t, size(t) + n)

\* prepend_empty_states without its second step: the rows are shifted right
\* but not down.
prepend_shifts_columns_only(t, n) ==
    IF t = Thrown \/ n < 1 THEN Thrown
    ELSE LET new_size == size(t) + n
             resized == Resized(t, new_size)
         IN  [i \in 0..(new_size - 1) |->
                 [j \in 0..(new_size - 1) |->
                     IF j < n THEN no_edge ELSE resized[i][j - n]]]

\* nfa::prepend_empty_states: every row is shifted right by n and its first
\* n cells cleared, then the rows are shifted down by n and the first n rows
\* cleared.
prepend_empty_states(t, n) ==
    IF t = Thrown \/ n < 1 THEN Thrown
    ELSE LET new_size == size(t) + n
             resized == Resized(t, new_size)
             shifted == [i \in 0..(new_size - 1) |->
                            [j \in 0..(new_size - 1) |->
                                IF j < n THEN no_edge ELSE resized[i][j - n]]]
         IN  [i \in 0..(new_size - 1) |->
                 IF i < n THEN [j \in 0..(new_size - 1) |-> no_edge]
                 ELSE shifted[i - n]]

\* nfa::append (this and other are different objects): other's rows are
\* copied into the new rows, from column orig_size on.
append(t, other) ==
    IF t = Thrown \/ other = Thrown THEN Thrown
    ELSE LET orig_size == size(t)
             grown == append_empty_states(t, size(other))
         IN  [i \in DOMAIN grown |->
                 [j \in DOMAIN grown |->
                     IF i >= orig_size /\ j >= orig_size
                     THEN other[i - orig_size][j - orig_size]
                     ELSE grown[i][j]]]

\* chain with the copy started one row late: other's row 0 is not copied and
\* the row of this automaton's final state is left as it was.
chain_skips_start_row(t, other) ==
    IF t = Thrown \/ other = Thrown THEN Thrown
    ELSE LET orig_size == size(t)
             grown == append_empty_states(t, size(other) - 1)
         IN  IF grown = Thrown THEN Thrown
             ELSE [i \in DOMAIN grown |->
                     [j \in DOMAIN grown |->
                         IF i >= orig_size /\ j >= orig_size - 1
                         THEN other[i - (orig_size - 1)][j - (orig_size - 1)]
                         ELSE grown[i][j]]]

\* chain with the copy started at orig_size, not at orig_size - 1, in rows
\* and in columns: the final state is not merged and other's last row and
\* column do not fit.
chain_off_by_one(t, other) ==
    IF t = Thrown \/ other = Thrown THEN Thrown
    ELSE LET orig_size == size(t)
             grown == append_empty_states(t, size(other) - 1)
         IN  IF grown = Thrown THEN Thrown
             ELSE [i \in DOMAIN grown |->
                     [j \in DOMAIN grown |->
                         IF i >= orig_size /\ j >= orig_size
                         THEN other[i - orig_size][j - orig_size]
                         ELSE grown[i][j]]]

\* nfa::chain (this and other are different objects): other's rows are
\* copied over the rows orig_size-1.., from column orig_size-1 on, so that
\* row orig_size-1 (this automaton's final state) receives other's row 0.
chain(t, other) ==
    IF t = Thrown \/ other = Thrown THEN Thrown
    ELSE LET orig_size == size(t)
             grown == append_empty_states(t, size(other) - 1)
         IN  IF grown = Thrown THEN Thrown
             ELSE [i \in DOMAIN grown |->
                     [j \in DOMAIN grown |->
                         IF i >= orig_size - 1 /\ j >= orig_size - 1
                         THEN other[i - (orig_size - 1)][j - (orig_size - 1)]
                         ELSE grown[i][j]]]

\* The elements of a finite set of ints in ascending order: the order in
\* which a std::set<int> is iterated.
RECURSIVE Ascending(_)
Ascending(S) ==
    IF S = {} THEN << >>
    ELSE LET m == CHOOSE x \in S : \A y \in S : x <= y
         IN  <<m>> \o Ascending(S \ {m})

\* The while loop of epsilon_closure: pop t, then push and insert every u
\* that is t itself or an epsilon successor of t and is not in the closure.
RECURSIVE EpsWhile(_, _, _)
EpsWhile(t, stack, eps_closure) ==
    IF stack = << >> THEN eps_closure
    ELSE LET top == stack[Len(stack)]
             rest == SubSeq(stack, 1, Len(stack) - 1)
             found == {u \in DOMAIN t :
                          (u = top \/ t[top][u] = epsilon) /\ u \notin eps_closure}
         IN  EpsWhile(t, rest \o Ascending(found), eps_closure \cup found)

\* The for loop of epsilon_closure over the start states.
RECURSIVE EpsFor(_, _, _)
EpsFor(t, seeds, eps_closure) ==
    IF seeds = << >> THEN eps_closure
    ELSE EpsFor(t, Tail(seeds), EpsWhile(t, <<Head(seeds)>>, eps_closure))

\* epsilon_closure without the test u == t of its inner loop: a state enters
\* the closure only as the epsilon successor of another.
RECURSIVE EpsWhileSuccessorsOnly(_, _, _)
EpsWhileSuccessorsOnly(t, stack, eps_closure) ==
    IF stack = << >> THEN eps_closure
    ELSE LET top == stack[Len(stack)]
             rest == SubSeq(stack, 1, Len(stack) - 1)
             found == {u \in DOMAIN t :
                          t[top][u] = epsilon /\ u \notin eps_closure}
         IN  EpsWhileSuccessorsOnly(t, rest \o Ascending(found), eps_closure \cup found)

RECURSIVE EpsForSuccessorsOnly(_, _, _)
EpsForSuccessorsOnly(t, seeds, eps_closure) ==
    IF seeds = << >> THEN eps_closure
    ELSE EpsForSuccessorsOnly(t, Tail(seeds),
                              EpsWhileSuccessorsOnly(t, <<Head(seeds)>>, eps_closure))

epsilon_closure_successors_only(t, start_states) ==
    EpsForSuccessorsOnly(t, Ascending(start_states), {})

\* nfa::epsilon_closure, for legal start states.
epsilon_closure(t, start_states) == EpsFor(t, Ascending(start_states), {})

\* nfa::reachable_states, for legal start states: the cell of a state with
\* itself is skipped.
reachable_states(t, start_states, input) ==
    {s \in DOMAIN t :
        \E start \in start_states : s # start /\ t[start][s] = input}

\* ------------------------------------------------------------------------
\* Thompson's construction (src/src/thompson.hpp)
\* ------------------------------------------------------------------------

build_literal(input) == add_transition(nfa_new(2), 0, 1, input)

build_concatenation(a, b) == chain(a, b)

\* build_alternation with the second epsilon edge of the new start state
\* off by one: it leads to a.size(), a's final state, not to b's start.
build_alternation_second_start_off(a, b) ==
    LET alt1 == append(a, b)
        alt2 == prepend_empty_states(alt1, 1)
        alt3 == append_empty_states(alt2, 1)
        alt4 == add_transition(alt3, 0, 1, epsilon)
        alt5 == add_transition(alt4, 0, size(a), epsilon)
        alt6 == add_transition(alt5, size(a), size(alt3) - 1, epsilon)
    IN  add_transition(alt6, size(a) + size(b), size(alt3) - 1, epsilon)

build_alternation(a, b) ==
    LET alt1 == append(a, b)
        alt2 == prepend_empty_states(alt1, 1)
        alt3 == append_empty_states(alt2, 1)
        alt4 == add_transition(alt3, 0, 1, epsilon)
        alt5 == add_transition(alt4, 0, 1 + size(a), epsilon)
        alt6 == add_transition(alt5, size(a), size(alt3) - 1, epsilon)
    IN  add_transition(alt6, size(a) + size(b), size(alt3) - 1, epsilon)

\* build_kleene_star with the back edge drawn from the new final state
\* instead of the fragment's final state.
build_kleene_star_back_edge_from_final(x) ==
    LET star1 == prepend_empty_states(x, 1)
        star2 == append_empty_states(star1, 1)
        star3 == add_transition(star2, 0, 1, epsilon)
        star4 == add_transition(star3, 0, size(star2) - 1, epsilon)
        star5 == add_transition(star4, size(star2) - 1, 1, epsilon)
    IN  add_transition(star5, size(star2) - 2, size(star2) - 1, epsilon)

build_kleene_star(x) ==
    LET star1 == prepend_empty_states(x, 1)
        star2 == append_empty_states(star1, 1)
        star3 == add_transition(star2, 0, 1, epsilon)
        star4 == add_transition(star3, 0, size(star2) - 1, epsilon)
        star5 == add_transition(star4, size(star2) - 2, 1, epsilon)
    IN  add_transition(star5, size(star2) - 2, size(star2) - 1, epsilon)

build_question_mark(x) == build_alternation(x, build_literal(epsilon))

build_plus_sign(x) == build_concatenation(x, build_kleene_star(x))

\* ------------------------------------------------------------------------
\* State
\* ------------------------------------------------------------------------

VARIABLES
    ndebug,               \* the build: TRUE when assert() is compiled out
    \* shunting_yard_nfa_parser
    regex_,               \* the pattern, a sequence of character codes
    op_stack_,            \* the operator stack, top last
    output_,              \* the output vector of automata, back last
    nesting_level_,
    is_prev_separator_,
    p_pc,                 \* where parse() stands
    pos,                  \* index into regex_ of the character scanned next
    calls,                \* parse() calls started so far
    results,              \* how each parse() call ended, in call order
    ub,                   \* TRUE once an operation with undefined behaviour ran
    \* dfa
    the_nfa,              \* the constructor's argument nfa
    input_lang,           \* the constructor's argument input_lang
    to_process,           \* the constructor's worklist, top last
    start_states,         \* the set popped by the current iteration
    transition_table_,
    start_,               \* << >> is transition_table_.end(), <<k>> the entry of key k
    final_state_,
    dfa_pc,               \* where the constructor stands
    sim_input,            \* the argument of the last simulate call
    sim_result,           \* its return value
    \* an nfa object called directly
    nfa_this,             \* the object's transition_table_
    nfa_log               \* the calls made on it so far, in call order

parser_vars == <<regex_, op_stack_, output_, nesting_level_, is_prev_separator_,
                 p_pc, pos, calls, results, ub>>

dfa_vars == <<the_nfa, input_lang, to_process, start_states, transition_table_,
              start_, final_state_, dfa_pc, sim_input, sim_result>>

bench_vars == <<nfa_this, nfa_log>>

vars == <<ndebug, parser_vars, dfa_vars, bench_vars>>

\* ------------------------------------------------------------------------
\* dfa (src/src/fsm.hpp)
\* ------------------------------------------------------------------------

\* operator< of std::set<state_t>: lexicographic on the ascending elements.
RECURSIVE SeqLess(_, _)
SeqLess(s, t) ==
    IF t = << >> THEN FALSE
    ELSE IF s = << >> THEN TRUE
    ELSE IF Head(s) # Head(t) THEN Head(s) < Head(t)
    ELSE SeqLess(Tail(s), Tail(t))

SetLess(S, T) == SeqLess(Ascending(S), Ascending(T))

\* transition_table_.begin() of a table with an entry: the least key.
MapBegin(table) ==
    <<CHOOSE k \in DOMAIN table : \A o \in DOMAIN table : o = k \/ SetLess(k, o)>>

\* transition_table_.find(key)
MapFind(table, key) == IF key \in DOMAIN table THEN <<key>> ELSE << >>

\* An empty std::map.
EmptyMap == [k \in {} |-> {}]

\* m[k] = v of a std::map: the entry is created or overwritten.
MapPut(m, k, v) == [x \in DOMAIN m \cup {k} |-> IF x = k THEN v ELSE m[x]]

\* The body of the for loop of the constructor for the inputs still to come:
\* a non-empty reachable set is closed, recorded as the successor of
\* start_states on input, and pushed; start_ is set on the first record.
\* Every successor is pushed, seen before or not.
RECURSIVE ForInputs(_, _, _, _, _, _)
ForInputs(t, inputs, from, table, stack, start) ==
    IF inputs = << >>
    THEN [table |-> table, stack |-> stack, start |-> start, bad_alloc |-> FALSE]
    ELSE LET input == Head(inputs)
             reachable == reachable_states(t, from, input)
         IN  IF reachable = {}
             THEN ForInputs(t, Tail(inputs), from, table, stack, start)
             ELSE LET closed == epsilon_closure(t, reachable)
                      transitions == IF from \in DOMAIN table
                                     THEN table[from] ELSE EmptyMap
                      table2 == MapPut(table, from, MapPut(transitions, input, closed))
                      start2 == IF start = << >> THEN MapBegin(table2) ELSE start
                  IN  IF Len(stack) >= MaxWorklist
                      THEN [table |-> table2, stack |-> stack, start |-> start,
                            bad_alloc |-> TRUE]
                      ELSE ForInputs(t, Tail(inputs), from, table2,
                                     Append(stack, closed), start2)

\* The member initialisers of dfa::dfa and the first push.
DfaConstruct ==
    /\ dfa_pc = "new"
    /\ transition_table_' = EmptyMap
    /\ start_' = << >>
    /\ final_state_' = final_state(the_nfa)
    /\ to_process' = <<epsilon_closure(the_nfa, {start_state(the_nfa)})>>
    /\ dfa_pc' = "while"
    /\ UNCHANGED <<ndebug, bench_vars, parser_vars, the_nfa, input_lang, start_states,
                   sim_input, sim_result>>

\* while(!to_process.empty()): the top is moved out and popped.
DfaPop ==
    /\ dfa_pc = "while"
    /\ to_process # << >>
    /\ start_states' = to_process[Len(to_process)]
    /\ to_process' = SubSeq(to_process, 1, Len(to_process) - 1)
    /\ dfa_pc' = "for"
    /\ UNCHANGED <<ndebug, bench_vars, parser_vars, the_nfa, input_lang, transition_table_,
                   start_, final_state_, sim_input, sim_result>>

\* for(const auto input : input_lang), in the order of the std::set.  A push
\* that finds no memory throws std::bad_alloc out of the constructor.
DfaFor ==
    /\ dfa_pc = "for"
    /\ LET r == ForInputs(the_nfa, Ascending(input_lang), start_states,
                          transition_table_, to_process, start_)
       IN  /\ transition_table_' = r.table
           /\ to_process' = r.stack
           /\ start_' = r.start
           /\ dfa_pc' = IF r.bad_alloc THEN "bad_alloc" ELSE "while"
    /\ UNCHANGED <<ndebug, bench_vars, parser_vars, the_nfa, input_lang, start_states,
                   final_state_, sim_input, sim_result>>

\* After the loop: the assertion that {final_state_} has no entry (it aborts
\* the program unless compiled out), then the terminal entry is written.
DfaFinish ==
    /\ dfa_pc = "while"
    /\ to_process = << >>
    /\ IF {final_state_} \in DOMAIN transition_table_ /\ ~ndebug
       THEN /\ dfa_pc' = "abort"
            /\ UNCHANGED transition_table_
       ELSE /\ dfa_pc' = "done"
            /\ transition_table_' = MapPut(transition_table_, {final_state_}, EmptyMap)
    /\ UNCHANGED <<ndebug, bench_vars, parser_vars, the_nfa, input_lang, to_process,
                   start_states, start_, final_state_, sim_input, sim_result>>

\* The loop of dfa::simulate from position i of input, state an iterator.
RECURSIVE SimLoop(_, _, _, _, _)
SimLoop(table, final, state, input, i) ==
    IF i > Len(input)
    THEN IF state # << >> /\ final \in state[1] THEN "accept" ELSE "reject"
    ELSE IF state = << >> THEN "reject"
    ELSE LET transitions == table[state[1]]
         IN  IF input[i] \notin DOMAIN transitions THEN "reject"
             ELSE SimLoop(table, final, MapFind(table, transitions[input[i]]),
                          input, i + 1)

\* simulate without the test that the last state holds the final state.
RECURSIVE SimLoopNoFinalTest(_, _, _, _)
SimLoopNoFinalTest(table, state, input, i) ==
    IF i > Len(input)
    THEN IF state # << >> THEN "accept" ELSE "reject"
    ELSE IF state = << >> THEN "reject"
    ELSE LET transitions == table[state[1]]
         IN  IF input[i] \notin DOMAIN transitions THEN "reject"
             ELSE SimLoopNoFinalTest(table, MapFind(table, transitions[input[i]]),
                                     input, i + 1)

simulate_no_final_test(table, start, final, input) ==
    SimLoopNoFinalTest(table, start, input, 1)

\* simulate without the test state == end() of its loop: the end iterator is
\* dereferenced, which is undefined.
RECURSIVE SimLoopUncheckedIterator(_, _, _, _, _)
SimLoopUncheckedIterator(table, final, state, input, i) ==
    IF i > Len(input)
    THEN IF state # << >> /\ final \in state[1] THEN "accept" ELSE "reject"
    ELSE IF state = << >> THEN "undefined"
    ELSE LET transitions == table[state[1]]
         IN  IF input[i] \notin DOMAIN transitions THEN "reject"
             ELSE SimLoopUncheckedIterator(table, final,
                                           MapFind(table, transitions[input[i]]),
                                           input, i + 1)

simulate_unchecked_iterator(table, start, final, input) ==
    SimLoopUncheckedIterator(table, final, start, input, 1)

\* dfa::simulate
simulate(table, start, final, input) == SimLoop(table, final, start, input, 1)

\* ------------------------------------------------------------------------
\* The DFA alone: built from an automaton and an alphabet, then simulated
\* ------------------------------------------------------------------------

\* The symbols that label the edges of the automata.
Literals == {CH_a, CH_b}

\* The symbols of the inputs of simulate: CH_c is in no alphabet.
InputSymbols == {CH_a, CH_b, CH_c}

\* The automata obtained from literals by exactly k builder applications.
RECURSIVE Built(_)
Built(k) ==
    IF k = 0 THEN {build_literal(c) : c \in Literals}
    ELSE UNION {{build_kleene_star(x), build_question_mark(x), build_plus_sign(x)} :
                   x \in Built(k - 1)}
         \cup UNION {UNION {{build_concatenation(x, y), build_alternation(x, y)} :
                               x \in Built(i), y \in Built(k - 1 - i)} :
                        i \in 0..(k - 1)}

\* The automata written by hand with add_transition: every table of at most
\* MaxRawSize states whose cells hold no edge, epsilon or CH_a.
RawNfas ==
    UNION {[0..(n - 1) -> [0..(n - 1) -> {no_edge, epsilon, CH_a}]] : n \in 1..MaxRawSize}

\* An automaton written by hand whose final state has an outgoing edge and
\* whose subset construction has no cycle: 0 -a-> 2 -a-> 1.
NamedNfas ==
    {add_transition(add_transition(nfa_new(3), 0, 2, CH_a), 2, 1, CH_a)}

NfaPool == UNION {Built(k) : k \in 0..MaxOps} \cup RawNfas \cup NamedNfas

Alphabets == SUBSET Literals

\* The inputs of the specification's examples for the pattern (a|b)*abb.
NamedInputs ==
    {<<CH_a, CH_b, CH_a, CH_b, CH_b>>, <<CH_a, CH_b, CH_b, CH_a, CH_b, CH_b>>}

Inputs == UNION {[1..n -> InputSymbols] : n \in 0..MaxInputLen} \cup NamedInputs

\* The parser is not used: its variables rest.
ParserIdle ==
    /\ regex_ = << >>
    /\ op_stack_ = << >>
    /\ output_ = << >>
    /\ nesting_level_ = 0
    /\ is_prev_separator_ = FALSE
    /\ p_pc = "idle"
    /\ pos = 1
    /\ calls = 0
    /\ results = << >>
    /\ ub = FALSE

\* No nfa object is called directly: its variables rest.
BenchIdle ==
    /\ nfa_this = Thrown
    /\ nfa_log = << >>

\* The dfa object before its constructor has run.
DfaNew ==
    /\ to_process = << >>
    /\ start_states = {}
    /\ transition_table_ = EmptyMap
    /\ start_ = << >>
    /\ final_state_ = 0
    /\ dfa_pc = "new"
    /\ sim_input = << >>
    /\ sim_result = "none"

InitDfa ==
    /\ ndebug \in BOOLEAN
    /\ ParserIdle
    /\ the_nfa \in NfaPool
    /\ input_lang \in Alphabets
    /\ DfaNew
    /\ BenchIdle

\* A call of simulate on the constructed dfa.
Simulate ==
    /\ dfa_pc = "done"
    /\ \E input \in Inputs :
        /\ sim_input' = input
        /\ sim_result' = simulate(transition_table_, start_, final_state_, input)
    /\ UNCHANGED <<ndebug, bench_vars, parser_vars, the_nfa, input_lang, to_process,
                   start_states, transition_table_, start_, final_state_, dfa_pc>>

NextDfa == DfaConstruct \/ DfaPop \/ DfaFor \/ DfaFinish \/ Simulate

\* The constructor runs on one thread and each of its steps is taken when it
\* is the next one: weak fairness of the steps.  DfaConstruct is enabled
\* exactly when dfa_pc = "new" and DfaFor exactly when dfa_pc = "for", and
\* each leaves that position, so their weak fairness is stated as "the
\* constructor is infinitely often not at that position".
DfaFairness ==
    /\ WF_vars(DfaPop)
    /\ WF_vars(DfaFinish)
    /\ []<>(dfa_pc # "new")
    /\ []<>(dfa_pc # "for")

SpecDfa == InitDfa /\ [][NextDfa]_vars /\ DfaFairness

\* ------------------------------------------------------------------------
\* shunting_yard_nfa_parser (src/src/parser.hpp)
\* ------------------------------------------------------------------------

\* fsm::derive_input_language: the set of the characters of the pattern.
derive_input_language(str) == {str[i] : i \in DOMAIN str}

\* How a call of parse() ended.  status is "returned" (nfa is the value
\* returned), "runtime_error" (std::runtime_error thrown by a build_* member),
\* "assert_failed" (a failed assert() aborted the program) or "crashed" (an
\* operation with undefined behaviour ended the program).  op_stack and
\* output are the two stacks as the call left them.
CallEnd(status, nfa, ops, out) ==
    [status |-> status, nfa |-> nfa, op_stack |-> ops, output |-> out]

\* What output_.front() may hand back when output_ is empty (undefined
\* behaviour), unless the program crashes: an automaton that is no fragment.
GarbageNfas == {nfa_new(1)}

Top(st) == st[Len(st)]

Pop(st) == SubSeq(st, 1, Len(st) - 1)

\* output_.back() = x
SetBack(out, x) == [out EXCEPT ![Len(out)] = x]

\* The fold of build_alternation once two fragments are known to be there:
\* the last two fragments are replaced by their alternation.
FoldTwo(out) ==
    Append(SubSeq(out, 1, Len(out) - 2),
           build_alternation(out[Len(out) - 1], out[Len(out)]))

\* build_alternation with its test written output_.size() < 1: a single
\* fragment is taken for both operands' result and left in place.
parser_build_alternation_one_operand(out) ==
    IF Len(out) < 1 THEN [threw |-> TRUE, out |-> out]
    ELSE IF Len(out) = 1 THEN [threw |-> FALSE, out |-> out]
    ELSE [threw |-> FALSE, out |-> FoldTwo(out)]

\* shunting_yard_nfa_parser::build_alternation: threw tells whether
\* std::runtime_error was thrown, out is output_ afterwards.
parser_build_alternation(out) ==
    IF Len(out) < 2 THEN [threw |-> TRUE, out |-> out]
    ELSE [threw |-> FALSE, out |-> FoldTwo(out)]

\* shunting_yard_nfa_parser::concatenate_output
RECURSIVE concatenate_output(_)
concatenate_output(out) ==
    IF Len(out) > 1
    THEN concatenate_output(
             Append(SubSeq(out, 1, Len(out) - 2),
                    build_concatenation(out[Len(out) - 1], out[Len(out)])))
    ELSE out

\* parse() is entered.  With exactly one fragment in output_ it returns that
\* fragment at once; otherwise it starts to scan regex_ from its first
\* character, on the stacks and flags as they are.  (The parser runs when
\* no nfa object is called directly and no dfa has been started.)
ParseEnter ==
    /\ p_pc = "idle"
    /\ dfa_pc = "none"
    /\ nfa_this = Thrown
    /\ calls < MaxCalls
    /\ calls' = calls + 1
    /\ IF Len(output_) = 1
       THEN /\ results' = Append(results,
                                 CallEnd("returned", Top(output_), op_stack_, output_))
            /\ UNCHANGED <<p_pc, pos>>
       ELSE /\ p_pc' = "scan"
            /\ pos' = 1
            /\ UNCHANGED results
    /\ UNCHANGED <<ndebug, bench_vars, ub, regex_, op_stack_, output_, nesting_level_,
                   is_prev_separator_, dfa_vars>>

\* The character the scan is at.
AtChar(c) == p_pc = "scan" /\ pos <= Len(regex_) /\ regex_[pos] = c

\* case '('
ScanLParen ==
    /\ AtChar(LPAREN)
    /\ op_stack_' = Append(op_stack_, "left_paren")
    /\ is_prev_separator_' = TRUE
    /\ nesting_level_' = nesting_level_ + 1
    /\ pos' = pos + 1
    /\ UNCHANGED <<ndebug, bench_vars, ub, regex_, output_, p_pc, calls, results, dfa_vars>>

\* case ')': the while loop is entered.
ScanRParen ==
    /\ AtChar(RPAREN)
    /\ p_pc' = "rparen"
    /\ UNCHANGED <<ndebug, bench_vars, ub, regex_, op_stack_, output_, nesting_level_,
                   is_prev_separator_, pos, calls, results, dfa_vars>>

\* One iteration of the while loop of case ')': the top operator, which is
\* not a left paren and so is an alternation, is popped and folded.
FoldRParen ==
    /\ p_pc = "rparen"
    /\ op_stack_ # << >>
    /\ Top(op_stack_) # "left_paren"
    /\ op_stack_' = Pop(op_stack_)
    /\ LET r == parser_build_alternation(output_)
       IN  IF r.threw
           THEN /\ results' = Append(results,
                        CallEnd("runtime_error", Thrown, Pop(op_stack_), output_))
                /\ p_pc' = "idle"
                /\ UNCHANGED output_
           ELSE /\ output_' = r.out
                /\ UNCHANGED <<results, p_pc>>
    /\ UNCHANGED <<ndebug, bench_vars, ub, regex_, nesting_level_, is_prev_separator_, pos, calls,
                   dfa_vars>>

\* After the while loop of case ')': op_stack_.pop() removes the left paren.
\* On an empty stack the pop has undefined behaviour: the program crashes, or
\* goes on with the stack still empty.
PopLParen ==
    /\ p_pc = "rparen"
    /\ IF op_stack_ = << >> THEN TRUE ELSE Top(op_stack_) = "left_paren"
    /\ \/ /\ op_stack_ # << >>
          /\ op_stack_' = Pop(op_stack_)
          /\ is_prev_separator_' = TRUE
          /\ nesting_level_' = nesting_level_ - 1
          /\ pos' = pos + 1
          /\ p_pc' = "scan"
          /\ UNCHANGED <<results, ub>>
       \/ /\ op_stack_ = << >>
          /\ ub' = TRUE
          /\ is_prev_separator_' = TRUE
          /\ nesting_level_' = nesting_level_ - 1
          /\ pos' = pos + 1
          /\ p_pc' = "scan"
          /\ UNCHANGED <<op_stack_, results>>
       \/ /\ op_stack_ = << >>
          /\ ub' = TRUE
          /\ results' = Append(results, CallEnd("crashed", Thrown, op_stack_, output_))
          /\ p_pc' = "dead"
          /\ UNCHANGED <<op_stack_, is_prev_separator_, nesting_level_, pos>>
    /\ UNCHANGED <<ndebug, bench_vars, regex_, output_, calls, dfa_vars>>

\* shunting_yard_nfa_parser::build_kleene_star
parser_build_kleene_star(out) ==
    IF out = << >> THEN [threw |-> TRUE, out |-> out]
    ELSE [threw |-> FALSE, out |-> SetBack(out, build_kleene_star(Top(out)))]

\* shunting_yard_nfa_parser::build_question_mark
parser_build_question_mark(out) ==
    IF out = << >> THEN [threw |-> TRUE, out |-> out]
    ELSE [threw |-> FALSE, out |-> SetBack(out, build_question_mark(Top(out)))]

\* shunting_yard_nfa_parser::build_plus_sign
parser_build_plus_sign(out) ==
    IF out = << >> THEN [threw |-> TRUE, out |-> out]
    ELSE [threw |-> FALSE, out |-> SetBack(out, build_plus_sign(Top(out)))]

\* The three cases '*', '?' and '+' after their build_* call, whose result is
\* r: the flag is cleared and the whole of output_ is concatenated.
AfterPostfix(r) ==
    /\ IF r.threw
       THEN /\ results' = Append(results,
                                 CallEnd("runtime_error", Thrown, op_stack_, output_))
            /\ p_pc' = "idle"
            /\ UNCHANGED <<output_, is_prev_separator_, pos>>
       ELSE /\ output_' = concatenate_output(r.out)
            /\ is_prev_separator_' = FALSE
            /\ pos' = pos + 1
            /\ UNCHANGED <<results, p_pc>>
    /\ UNCHANGED <<ndebug, bench_vars, ub, regex_, op_stack_, nesting_level_, calls, dfa_vars>>

\* case '*'
ScanStar == AtChar(STAR) /\ AfterPostfix(parser_build_kleene_star(output_))

\* case '?'
ScanQuestion == AtChar(QUESTION) /\ AfterPostfix(parser_build_question_mark(output_))

\* case '+'
ScanPlus == AtChar(PLUS) /\ AfterPostfix(parser_build_plus_sign(output_))

\* case '|'
ScanAlt ==
    /\ AtChar(PIPE)
    /\ op_stack_' = Append(op_stack_, "alternation")
    /\ is_prev_separator_' = TRUE
    /\ pos' = pos + 1
    /\ UNCHANGED <<ndebug, bench_vars, ub, regex_, output_, nesting_level_, p_pc, calls, results,
                   dfa_vars>>

\* The characters with a case of their own in the switch.
OperatorChars == {LPAREN, RPAREN, STAR, QUESTION, PLUS, PIPE}

\* default: a literal is pushed as a new fragment after a separator (or onto
\* an empty output_), else concatenated onto the back fragment.
ScanLiteral ==
    /\ p_pc = "scan"
    /\ pos <= Len(regex_)
    /\ regex_[pos] \notin OperatorChars
    /\ LET literal == build_literal(regex_[pos])
       IN  IF is_prev_separator_
           THEN /\ output_' = Append(output_, literal)
                /\ is_prev_separator_' = FALSE
           ELSE /\ output_' = IF output_ = << >>
                              THEN Append(output_, literal)
                              ELSE SetBack(output_,
                                           build_concatenation(Top(output_), literal))
                /\ UNCHANGED is_prev_separator_
    /\ pos' = pos + 1
    /\ UNCHANGED <<ndebug, bench_vars, ub, regex_, op_stack_, nesting_level_, p_pc, calls, results,
                   dfa_vars>>

\* The for loop over regex_ is over.
ScanEnd ==
    /\ p_pc = "scan"
    /\ pos > Len(regex_)
    /\ p_pc' = "end"
    /\ UNCHANGED <<ndebug, bench_vars, ub, regex_, op_stack_, output_, nesting_level_,
                   is_prev_separator_, pos, calls, results, dfa_vars>>

\* One iteration of the while loop after the scan: the top operator is
\* popped; assert(op == op::alternation) aborts the program on a left paren
\* unless compiled out; then build_alternation folds.
FoldEnd ==
    /\ p_pc = "end"
    /\ op_stack_ # << >>
    /\ op_stack_' = Pop(op_stack_)
    /\ IF Top(op_stack_) # "alternation" /\ ~ndebug
       THEN /\ results' = Append(results,
                       CallEnd("assert_failed", Thrown, Pop(op_stack_), output_))
            /\ p_pc' = "dead"
            /\ UNCHANGED output_
       ELSE LET r == parser_build_alternation(output_)
            IN  IF r.threw
                THEN /\ results' = Append(results,
                             CallEnd("runtime_error", Thrown, Pop(op_stack_), output_))
                     /\ p_pc' = "idle"
                     /\ UNCHANGED output_
                ELSE /\ output_' = r.out
                     /\ UNCHANGED <<results, p_pc>>
    /\ UNCHANGED <<ndebug, bench_vars, ub, regex_, nesting_level_, is_prev_separator_, pos, calls,
                   dfa_vars>>

\* The end of parse(): assert(output_.size() == 1) aborts the program unless
\* compiled out, then output_.front() is returned.  front() of an empty
\* output_ has undefined behaviour: the program crashes or returns garbage.
ParseReturn ==
    /\ p_pc = "end"
    /\ op_stack_ = << >>
    /\ IF Len(output_) # 1 /\ ~ndebug
       THEN /\ results' = Append(results,
                                 CallEnd("assert_failed", Thrown, op_stack_, output_))
            /\ p_pc' = "dead"
            /\ UNCHANGED ub
       ELSE IF output_ = << >>
       THEN /\ ub' = TRUE
            /\ \/ /\ results' = Append(results,
                                       CallEnd("crashed", Thrown, op_stack_, output_))
                  /\ p_pc' = "dead"
               \/ /\ \E g \in GarbageNfas :
                         results' = Append(results,
                                           CallEnd("returned", g, op_stack_, output_))
                  /\ p_pc' = "idle"
       ELSE /\ results' = Append(results,
                                 CallEnd("returned", output_[1], op_stack_, output_))
            /\ p_pc' = "idle"
            /\ UNCHANGED ub
    /\ UNCHANGED <<ndebug, bench_vars, regex_, op_stack_, output_, nesting_level_,
                   is_prev_separator_, pos, calls, dfa_vars>>

NextParse ==
    \/ ParseEnter \/ ScanLParen \/ ScanRParen \/ FoldRParen \/ PopLParen
    \/ ScanStar \/ ScanQuestion \/ ScanPlus \/ ScanAlt \/ ScanLiteral
    \/ ScanEnd \/ FoldEnd \/ ParseReturn

\* ------------------------------------------------------------------------
\* The whole program: a pattern is parsed, the automaton returned is
\* determinized over the pattern's characters, and the dfa is simulated
\* ------------------------------------------------------------------------

\* The characters of the patterns.
PatternChars == OperatorChars \cup Literals

\* The patterns of the tests and of the specification's examples, and the
\* patterns a|b*, a|b?, a|b+ and (a)b over the literals.
NamedPatterns ==
    {<<LPAREN, CH_a, PIPE, CH_b, RPAREN, STAR, CH_a, CH_b, CH_b>>,
     <<LPAREN, CH_a, PIPE, CH_b, RPAREN, STAR, CH_c, CH_d, CH_e>>,
     <<CH_a, LPAREN, CH_b, PIPE, CH_c, RPAREN, STAR, PIPE, CH_d>>}
    \cup {<<x, PIPE, y, p>> : x \in Literals, y \in Literals,
                              p \in {STAR, QUESTION, PLUS}}
    \cup {<<LPAREN, x, RPAREN, y>> : x \in Literals, y \in Literals}

Patterns == UNION {[1..n -> PatternChars] : n \in 0..MaxPatLen} \cup NamedPatterns

Init ==
    /\ ndebug \in BOOLEAN
    /\ regex_ \in Patterns
    /\ op_stack_ = << >>
    /\ output_ = << >>
    /\ nesting_level_ = 0
    /\ is_prev_separator_ = FALSE
    /\ p_pc = "idle"
    /\ pos = 1
    /\ calls = 0
    /\ results = << >>
    /\ ub = FALSE
    /\ the_nfa = Thrown
    /\ input_lang = {}
    /\ to_process = << >>
    /\ start_states = {}
    /\ transition_table_ = EmptyMap
    /\ start_ = << >>
    /\ final_state_ = 0
    /\ dfa_pc = "none"
    /\ sim_input = << >>
    /\ sim_result = "none"
    /\ BenchIdle

\* The automaton the last parse() call returned is handed to the dfa
\* constructor with the input language derived from the pattern.
Compile ==
    /\ p_pc = "idle"
    /\ dfa_pc = "none"
    /\ results # << >>
    /\ Top(results).status = "returned"
    /\ the_nfa' = Top(results).nfa
    /\ input_lang' = derive_input_language(regex_)
    /\ dfa_pc' = "new"
    /\ UNCHANGED <<ndebug, bench_vars, parser_vars, to_process, start_states, transition_table_,
                   start_, final_state_, sim_input, sim_result>>

Next == NextParse \/ Compile \/ NextDfa

Spec == Init /\ [][Next]_vars

\* ------------------------------------------------------------------------
\* Claims about the DFA, under SpecDfa
\* ------------------------------------------------------------------------

\* C1: the subset construction terminates for every automaton and alphabet:
\* every run of the constructor comes to an end.  Every end counts here, the
\* loop left with the worklist empty ("done", or "abort" at the assertion
\* after it) and the failure of a push for lack of memory ("bad_alloc").
C1_ConstructionTerminates == <>(dfa_pc \in {"done", "abort", "bad_alloc"})

\* The walk of the recorded transitions from the DFA-state from over
\* input[i..]: <<S>> with S the set reached after the last symbol, or << >>
\* when a symbol on the way has no recorded transition.
RECURSIVE Walk(_, _, _, _)
Walk(table, from, input, i) ==
    IF i > Len(input) THEN <<from>>
    ELSE IF from \in DOMAIN table /\ input[i] \in DOMAIN table[from]
    THEN Walk(table, table[from][input[i]], input, i + 1)
    ELSE << >>

\* C2: when the dfa has a start entry and every symbol of the input has a
\* recorded transition along the walk from it, simulate returns accept if and
\* only if the set reached after the last symbol contains the accepting
\* index N-1 of the automaton.
C2_AcceptIffFinalReached ==
    (dfa_pc = "done" /\ sim_result # "none" /\ start_ # << >>)
        => LET reached == Walk(transition_table_, start_[1], sim_input, 1)
           IN  reached # << >>
                   => (sim_result = "accept" <=> final_state(the_nfa) \in reached[1])

\* C3: the dfa of literal(x) over an alphabet that contains x is constructed,
\* and simulate accepts the input <<x>> and rejects every other input: the
\* empty one, every other one-symbol input and every longer input.
C3_LiteralAcceptsExactlyX ==
    \A x \in Literals :
        (the_nfa = build_literal(x) /\ x \in input_lang)
            => /\ dfa_pc \notin {"bad_alloc", "abort"}
               /\ (dfa_pc = "done" /\ sim_result # "none")
                      => (sim_result = "accept" <=> sim_input = <<x>>)

C3_Witness ==
    /\ the_nfa = build_literal(CH_a)
    /\ input_lang = {CH_a, CH_b}
    /\ dfa_pc = "done"
    /\ sim_input = <<CH_a>>
    /\ sim_result = "accept"

\* ------------------------------------------------------------------------
\* Claims about the parser and the whole program, under Spec
\* ------------------------------------------------------------------------

\* The failure the specification calls MissingOperand is the
\* std::runtime_error of the parser's build_* members.
MissingOperand == "runtime_error"

\* The ways a call of parse() can fail, whatever the failure is called.
Failures == {"runtime_error", "assert_failed"}

AbbPattern == <<LPAREN, CH_a, PIPE, CH_b, RPAREN, STAR, CH_a, CH_b, CH_b>>

\* C4: the pattern (a|b)*abb is compiled to the end (parse() returns an
\* automaton and the dfa constructor completes), and the dfa accepts ababb
\* and abbabb and rejects ab and the empty input.
C4_AbbCompilesAndMatches ==
    regex_ = AbbPattern
        => /\ results # << >> => results[1].status = "returned"
           /\ dfa_pc \notin {"bad_alloc", "abort"}
           /\ (dfa_pc = "done" /\ sim_result # "none")
                  => /\ sim_input \in NamedInputs => sim_result = "accept"
                     /\ sim_input \in {<<CH_a, CH_b>>, << >>} => sim_result = "reject"

\* C5: a postfix operator after two literals applies to the last literal
\* only: for all literals x and y the first parse() of xy*, xy? and xy+
\* returns the table of concatenation(literal(x), op(literal(y))).
C5_PostfixBindsLastLiteral ==
    \A x \in Literals, y \in Literals :
        results # << >>
            => /\ regex_ = <<x, y, STAR>>
                   => /\ results[1].status = "returned"
                      /\ results[1].nfa =
                             build_concatenation(build_literal(x),
                                                 build_kleene_star(build_literal(y)))
               /\ regex_ = <<x, y, QUESTION>>
                   => /\ results[1].status = "returned"
                      /\ results[1].nfa =
                             build_concatenation(build_literal(x),
                                                 build_question_mark(build_literal(y)))
               /\ regex_ = <<x, y, PLUS>>
                   => /\ results[1].status = "returned"
                      /\ results[1].nfa =
                             build_concatenation(build_literal(x),
                                                 build_plus_sign(build_literal(y)))

\* C6: alternation binds looser than repetition: for all literals x and y
\* the first parse() of x|y* returns the table of
\* alternation(literal(x), kleene_star(literal(y))).
C6_AlternationBindsLooser ==
    \A x \in Literals, y \in Literals :
        (results # << >> /\ regex_ = <<x, PIPE, y, STAR>>)
            => /\ results[1].status = "returned"
               /\ results[1].nfa =
                      build_alternation(build_literal(x),
                                        build_kleene_star(build_literal(y)))

\* C7: a step that folds an alternation marker while output_ holds fewer than
\* two fragments ends the call of parse() with MissingOperand and without an
\* automaton.
C7_ShortFoldFails ==
    [][(/\ p_pc \in {"rparen", "end"}
        /\ op_stack_ # << >>
        /\ Top(op_stack_) = "alternation"
        /\ Len(output_) < 2)
           => /\ Len(results') = Len(results) + 1
              /\ Top(results').status = MissingOperand
              /\ Top(results').nfa = Thrown
              /\ p_pc' = "idle"]_vars

C7_Witness ==
    /\ regex_ = <<PIPE, CH_a>>
    /\ Len(results) = 1
    /\ results[1].status = MissingOperand
    /\ results[1].nfa = Thrown

\* C8: when the first parse() on a parser object returns an automaton (a
\* fragment of a non-empty output_, in a run without undefined behaviour),
\* the second parse() returns an automaton with the same table and leaves
\* both stacks as the first call left them.
C8_ParseIdempotent ==
    (/\ Len(results) >= 2
     /\ ~ub
     /\ results[1].status = "returned"
     /\ results[1].output # << >>)
        => /\ results[2].status = "returned"
           /\ results[2].nfa = results[1].nfa
           /\ results[2].op_stack = results[1].op_stack
           /\ results[2].output = results[1].output

\* The nesting depth after each prefix of a pattern never drops below zero
\* and ends at zero.
RECURSIVE DepthOk(_, _, _)
DepthOk(pattern, i, depth) ==
    IF i > Len(pattern) THEN depth = 0
    ELSE IF pattern[i] = LPAREN THEN DepthOk(pattern, i + 1, depth + 1)
    ELSE IF pattern[i] = RPAREN
    THEN depth > 0 /\ DepthOk(pattern, i + 1, depth - 1)
    ELSE DepthOk(pattern, i + 1, depth)

Balanced(pattern) == DepthOk(pattern, 1, 0)

\* C9: on a pattern with unbalanced parentheses parse() fails and returns no
\* automaton (every failure counts as UnbalancedParens here); the operator
\* stack is never popped while empty (case ')' is never past its while loop
\* with the stack empty), and a left-paren marker is never folded as an
\* alternation (the fold after the scan never runs on a left paren).
C9_UnbalancedFails ==
    /\ ~(p_pc = "rparen" /\ op_stack_ = << >>)
    /\ ~(/\ p_pc = "end" /\ ndebug
         /\ op_stack_ # << >> /\ Top(op_stack_) = "left_paren")
    /\ (~Balanced(regex_) /\ results # << >>) => results[1].status \in Failures

\* C10: a call of parse() that ends its scan with more than one fragment in
\* output_ fails (every failure counts as MalformedPattern here): no call
\* returns an automaton while output_ holds several fragments.
C10_LeftoverFragmentsFail ==
    ~ub => \A i \in DOMAIN results :
               Len(results[i].output) > 1 => results[i].status \in Failures

\* ------------------------------------------------------------------------
\* An nfa object called directly (src/src/fsm.hpp), as the test nfa() of
\* src/test/main.cpp calls it
\* ------------------------------------------------------------------------

\* Number of calls made on the object.
MaxNfaCalls == 2

\* Largest size of the objects written by hand, and the largest number of
\* add_transition calls that wrote one.
MaxNfaSize == 2
MaxEdges == 2

\* Largest argument of append_empty_states and prepend_empty_states.
MaxPad == 2

\* The labels add_transition is called with.
EdgeLabels == {epsilon, CH_a}

\* The tables of n states written by at most k add_transition calls.
RECURSIVE WithEdges(_, _)
WithEdges(n, k) ==
    IF k = 0 THEN {nfa_new(n)}
    ELSE LET fewer == WithEdges(n, k - 1)
         IN  fewer \cup {add_transition(t, i, j, l) :
                            t \in fewer, i \in 0..(n - 1), j \in 0..(n - 1),
                            l \in EdgeLabels}

\* The objects the calls are made on.
Objects == UNION {WithEdges(n, MaxEdges) : n \in 1..MaxNfaSize} \cup Built(0)

\* The objects passed to chain and build_alternation.
Operands == UNION {WithEdges(n, 1) : n \in 1..MaxNfaSize} \cup Built(0)

\* The sizes nfa::nfa is called with.
Sizes == (0 - 2)..MaxNfaSize

\* One call: the member called, its arguments (other, same: the argument is
\* the object itself, n, seeds, input), the object before and after it, the
\* exception it threw ("none" when it returned) and what it returned.
Call(op, before, other, same, n, seeds, input, threw, after, ret) ==
    [op |-> op, before |-> before, other |-> other, same |-> same, n |-> n,
     seeds |-> seeds, input |-> input, threw |-> threw, after |-> after,
     ret |-> ret]

\* The call c is made: it is logged and the object is left as c.after.
Logged(c) ==
    /\ nfa_this # Thrown
    /\ Len(nfa_log) < MaxNfaCalls
    /\ nfa_log' = Append(nfa_log, c)
    /\ nfa_this' = c.after
    /\ UNCHANGED <<ndebug, parser_vars, dfa_vars>>

\* A call of a member that returns an automaton or throws
\* std::invalid_argument before it changes the object.
Mutated(op, other, same, n, result) ==
    Logged(Call(op, nfa_this, other, same, n, {}, no_edge,
                IF result = Thrown THEN "invalid_argument" ELSE "none",
                IF result = Thrown THEN nfa_this ELSE result, {}))

\* nfa::chain, the object case included: when other is this object the call
\* returns at once.
chain_call(t, other, same) == IF same THEN t ELSE chain(t, other)

\* a.chain(b), b another object or a itself
CallChain ==
    \/ \E other \in Operands :
           Mutated("chain", other, FALSE, 0, chain_call(nfa_this, other, FALSE))
    \/ Mutated("chain", nfa_this, TRUE, 0, chain_call(nfa_this, nfa_this, TRUE))

\* a.append_empty_states(n)
CallAppendEmptyStates ==
    \E n \in 0..MaxPad :
        Mutated("append_empty_states", Thrown, FALSE, n, append_empty_states(nfa_this, n))

\* a.prepend_empty_states(n)
CallPrependEmptyStates ==
    \E n \in 0..MaxPad :
        Mutated("prepend_empty_states", Thrown, FALSE, n, prepend_empty_states(nfa_this, n))

\* The outcomes of nfa::nfa(size).  The member initialiser
\* transition_table_(size) runs before the test of size: a negative size is
\* converted to a size_type beyond max_size() and the vector's constructor
\* throws std::length_error or, where the library leaves the test to the
\* allocator, std::bad_alloc; the body is never reached.  For size 0 the
\* body throws std::invalid_argument.
nfa_ctor_outcomes(sz) ==
    IF sz < 0 THEN {"length_error", "bad_alloc"}
    ELSE IF sz < 1 THEN {"invalid_argument"}
    ELSE {"none"}

\* a = nfa(sz): a new object takes the place of the object when the
\* constructor returns.
CallConstruct ==
    \E sz \in Sizes : \E threw \in nfa_ctor_outcomes(sz) :
        Logged(Call("nfa", nfa_this, Thrown, FALSE, sz, {}, no_edge, threw,
                    IF threw = "none" THEN nfa_new(sz) ELSE nfa_this, {}))

\* A call of a const member on legal arguments: it returns ret.
Queried(op, other, seeds, input, ret) ==
    Logged(Call(op, nfa_this, other, FALSE, 0, seeds, input, "none", nfa_this, ret))

\* a.epsilon_closure(seeds), every seed a state of a
CallEpsilonClosure ==
    \E seeds \in SUBSET DOMAIN nfa_this :
        Queried("epsilon_closure", Thrown, seeds, no_edge,
                epsilon_closure(nfa_this, seeds))

\* a.reachable_states(seeds, input), every seed a state of a
CallReachableStates ==
    \E seeds \in SUBSET DOMAIN nfa_this : \E input \in Literals :
        Queried("reachable_states", Thrown, seeds, input,
                reachable_states(nfa_this, seeds, input))

\* thompson::build_alternation(a, b): a and b are passed by const reference
\* and copied.
CallBuildAlternation ==
    \E other \in Operands :
        Queried("build_alternation", other, {}, no_edge,
                build_alternation(nfa_this, other))

InitNfa ==
    /\ ndebug \in BOOLEAN
    /\ ParserIdle
    /\ the_nfa = Thrown
    /\ input_lang = {}
    /\ to_process = << >>
    /\ start_states = {}
    /\ transition_table_ = EmptyMap
    /\ start_ = << >>
    /\ final_state_ = 0
    /\ dfa_pc = "none"
    /\ sim_input = << >>
    /\ sim_result = "none"
    /\ nfa_this \in Objects
    /\ nfa_log = << >>

NextNfa ==
    \/ CallConstruct
    \/ CallChain
    \/ CallAppendEmptyStates
    \/ CallPrependEmptyStates
    \/ CallEpsilonClosure
    \/ CallReachableStates
    \/ CallBuildAlternation

SpecNfa == InitNfa /\ [][NextNfa]_vars

\* The last call made on the object.
LastCall == nfa_log[Len(nfa_log)]

\* ------------------------------------------------------------------------
\* Claims about the nfa, under SpecNfa
\* ------------------------------------------------------------------------

\* C11: a call a.chain(b) on automata of at least one state returns (it
\* throws nothing) and leaves a with a.size + b.size - 1 states, also when b
\* has one state and when b is a itself.
C11_ChainSize ==
    \A k \in DOMAIN nfa_log :
        nfa_log[k].op = "chain"
            => /\ nfa_log[k].threw = "none"
               /\ size(nfa_log[k].after)
                      = size(nfa_log[k].before) + size(nfa_log[k].other) - 1

\* The logged calls of chain that chained another object and returned.
Chained ==
    {k \in DOMAIN nfa_log :
        nfa_log[k].op = "chain" /\ ~nfa_log[k].same /\ nfa_log[k].threw = "none"}

\* C12 as stated: after a.chain(b) the merged state, index a.size-1, carries
\* b's start-state edges moved by a.size-1 and no other edge: every cell of
\* its row before column a.size-1 holds no edge.
C12_MergedStateOnlyB ==
    \A k \in Chained :
        LET c == nfa_log[k]
            merged == size(c.before) - 1
        IN  \A j \in DOMAIN c.after :
                c.after[merged][j] =
                    IF j >= merged THEN c.other[0][j - merged] ELSE no_edge

\* C12 as amended: after a.chain(b), b another object, the merged state
\* carries b's start-state edges moved by a.size-1 and keeps the edges a's
\* final state had to the states before it; only the cell of a's final state
\* with itself is replaced, by the cell of b's start state with itself.
C12_MergedStateKeepsBackEdges ==
    \A k \in Chained :
        LET c == nfa_log[k]
            merged == size(c.before) - 1
        IN  \A j \in DOMAIN c.after :
                c.after[merged][j] =
                    IF j >= merged THEN c.other[0][j - merged] ELSE c.before[merged][j]

C12_Witness ==
    /\ nfa_log # << >>
    /\ Len(nfa_log) \in Chained
    /\ size(LastCall.before) = 2
    /\ LastCall.before[1][0] = CH_a
    /\ LastCall.other = build_literal(CH_b)
    /\ LastCall.after[1][0] = CH_a
    /\ LastCall.after[1][2] = CH_b

\* The positions k of the log where a prepend_empty_states(n) that returned
\* is followed by an append_empty_states(m) that returned (n, m >= 1).
Padded ==
    {k \in DOMAIN nfa_log :
        /\ k + 1 \in DOMAIN nfa_log
        /\ nfa_log[k].op = "prepend_empty_states" /\ nfa_log[k].threw = "none"
        /\ nfa_log[k + 1].op = "append_empty_states" /\ nfa_log[k + 1].threw = "none"}

\* C13: prepend_empty_states(n) followed by append_empty_states(m) leaves an
\* automaton of old + n + m states whose cell (i+n, j+n) holds what the cell
\* (i, j) held before, for all old states i and j, and whose every other
\* cell (row or column a padding state) holds no edge.
C13_PaddingShiftsAndStaysEmpty ==
    \A k \in Padded :
        LET old == nfa_log[k].before
            n == nfa_log[k].n
            m == nfa_log[k + 1].n
            new == nfa_log[k + 1].after
        IN  /\ n >= 1 /\ m >= 1
            /\ size(new) = size(old) + n + m
            /\ \A i \in DOMAIN new : \A j \in DOMAIN new :
                   new[i][j] =
                       IF /\ i >= n /\ i < n + size(old)
                          /\ j >= n /\ j < n + size(old)
                       THEN old[i - n][j - n]
                       ELSE no_edge

C13_Witness ==
    /\ 1 \in Padded
    /\ nfa_log[1].before = add_transition(build_literal(CH_a), 1, 0, epsilon)
    /\ nfa_log[1].n = 1
    /\ nfa_log[2].n = 2
    /\ nfa_this[1][2] = CH_a
    /\ nfa_this[2][1] = epsilon
    /\ size(nfa_this) = 5

\* The states of t reachable from a state of S by zero or more epsilon
\* edges: the least set that holds S and is closed under epsilon edges.
RECURSIVE EpsilonReachable(_, _)
EpsilonReachable(t, S) ==
    LET more == S \cup {u \in DOMAIN t : \E s \in S : t[s][u] = epsilon}
    IN  IF more = S THEN S ELSE EpsilonReachable(t, more)

\* The logged calls of epsilon_closure.
Closed == {k \in DOMAIN nfa_log : nfa_log[k].op = "epsilon_closure"}

\* C14: a call of epsilon_closure on legal seeds returns (the call is in the
\* log with its result, cycles of epsilon edges or not) exactly the states
\* reachable from a seed by zero or more epsilon edges; the result holds
\* every seed, and epsilon_closure of the result is the result.
C14_EpsilonClosureExact ==
    \A k \in Closed :
        LET c == nfa_log[k]
        IN  /\ c.threw = "none"
            /\ c.ret = EpsilonReachable(c.before, c.seeds)
            /\ c.seeds \subseteq c.ret
            /\ epsilon_closure(c.before, c.ret) = c.ret

\* A call on an automaton with a cycle of epsilon edges 0 -> 1 -> 0 and
\* a symbol edge 1 -> 2 out of it.
C14_Witness ==
    /\ Len(nfa_log) = 2
    /\ 2 \in Closed
    /\ size(nfa_this) = 3
    /\ nfa_this[0][1] = epsilon
    /\ nfa_this[1][0] = epsilon
    /\ nfa_this[1][2] = CH_a
    /\ nfa_log[2].seeds = {1}
    /\ nfa_log[2].ret = {0, 1}

\* The logged calls of reachable_states.
Stepped == {k \in DOMAIN nfa_log : nfa_log[k].op = "reachable_states"}

\* C15: a call reachable_states(seeds, c) on legal seeds and a symbol c
\* returns exactly the states u to which some seed s has an edge labelled c,
\* u = s included.
C15_ReachableExact ==
    \A k \in Stepped :
        LET c == nfa_log[k]
        IN  c.ret = {u \in DOMAIN c.before :
                        \E s \in c.seeds : c.before[s][u] = c.input}

\* The failure the specification calls InvalidSize is the
\* std::invalid_argument of the constructor's body.
InvalidSize == "invalid_argument"

\* The logged calls of the constructor.
Constructed == {k \in DOMAIN nfa_log : nfa_log[k].op = "nfa"}

\* C16: nfa(size) fails with InvalidSize for every size < 1, negative or
\* zero, and for every size >= 1 returns an automaton of size states whose
\* every cell holds no edge.
C16_ConstructSizeChecked ==
    \A k \in Constructed :
        LET c == nfa_log[k]
        IN  IF c.n < 1
            THEN c.threw = InvalidSize
            ELSE /\ c.threw = "none"
                 /\ size(c.after) = c.n
                 /\ \A i \in DOMAIN c.after : \A j \in DOMAIN c.after :
                        c.after[i][j] = no_edge

\* ------------------------------------------------------------------------
\* Further claims about the DFA, under SpecDfa
\* ------------------------------------------------------------------------

\* C17: on a constructed dfa, with a start entry or without, every call of
\* simulate returns accept or reject; the iterator it starts from is end()
\* or an entry of the table; and an input with a symbol outside the alphabet
\* is rejected.
C17_SimulateTotal ==
    dfa_pc = "done"
        => /\ start_ # << >> => start_[1] \in DOMAIN transition_table_
           /\ sim_result # "none"
                  => /\ sim_result \in {"accept", "reject"}
                     /\ (\E i \in DOMAIN sim_input : sim_input[i] \notin input_lang)
                            => sim_result = "reject"

\* The symbol CH_c, in no alphabet, is read in a DFA-state that has an entry.
C17_Witness ==
    /\ the_nfa = build_literal(CH_a)
    /\ input_lang = {CH_a}
    /\ dfa_pc = "done"
    /\ start_ = <<{0}>>
    /\ sim_input = <<CH_a, CH_c>>
    /\ sim_result = "reject"

\* C18: a constructed dfa has a start entry, whose state set is the epsilon
\* closure of the start state of the automaton, whether or not a symbol of
\* the alphabet has a transition out of that closure; so simulate on the
\* empty input accepts exactly when that closure holds the final state.
C18_StartEntryIsStartClosure ==
    dfa_pc = "done"
        => LET closure == epsilon_closure(the_nfa, {start_state(the_nfa)})
           IN  /\ start_ = <<closure>>
               /\ (sim_result # "none" /\ sim_input = << >>)
                      => (sim_result = "accept" <=> final_state(the_nfa) \in closure)

\* The states to which a state of S has an edge labelled c, the state itself
\* included.
OneStep(t, S, c) == {u \in DOMAIN t : \E s \in S : t[s][u] = c}

\* The DFA-states reachable from the DFA-states of Found over the symbols of
\* alphabet: the least set that holds Found and, with S, the epsilon closure
\* of every non-empty OneStep(t, S, c).
RECURSIVE DfaStates(_, _, _)
DfaStates(t, alphabet, Found) ==
    LET more == Found \cup ({EpsilonReachable(t, OneStep(t, S, c)) :
                                S \in Found, c \in alphabet} \ {{}})
    IN  IF more = Found THEN Found ELSE DfaStates(t, alphabet, more)

\* 2^n
RECURSIVE Pow2(_)
Pow2(n) == IF n = 0 THEN 1 ELSE 2 * Pow2(n - 1)

\* C19: when the constructor completes, the table has at most 2^N keys, and
\* for every DFA-state S reachable from the start closure and every symbol c
\* of the alphabet that labels an edge out of a member of S, the table
\* records for (S, c) the epsilon closure of the one-step c-successors of S.
C19_TableCompleteAndBounded ==
    dfa_pc = "done"
        => /\ Cardinality(DOMAIN transition_table_) <= Pow2(size(the_nfa))
           /\ \A S \in DfaStates(the_nfa, input_lang,
                                  {EpsilonReachable(the_nfa, {start_state(the_nfa)})}) :
                  \A c \in input_lang :
                      OneStep(the_nfa, S, c) # {}
                          => /\ S \in DOMAIN transition_table_
                             /\ c \in DOMAIN transition_table_[S]
                             /\ transition_table_[S][c]
                                    = EpsilonReachable(the_nfa, OneStep(the_nfa, S, c))

\* ------------------------------------------------------------------------
\* Claims about Thompson's construction, under SpecNfa
\* ------------------------------------------------------------------------

\* The logged calls of build_alternation.
Alternated == {k \in DOMAIN nfa_log : nfa_log[k].op = "build_alternation"}

\* C20: build_alternation(a, b) returns an automaton of a.size + b.size + 2
\* states with a's cells moved by 1, b's cells moved by 1 + a.size, the four
\* epsilon edges 0 -> 1, 0 -> 1 + a.size, a.size -> last and
\* a.size + b.size -> last, and no edge in any other cell; the object a it was
\* called with is as before (b is passed by const reference too).
C20_AlternationLayout ==
    \A k \in Alternated :
        LET a == nfa_log[k].before
            b == nfa_log[k].other
            r == nfa_log[k].ret
            last == size(a) + size(b) + 1
            added == {<<0, 1>>, <<0, 1 + size(a)>>, <<size(a), last>>,
                      <<size(a) + size(b), last>>}
        IN  /\ nfa_log[k].threw = "none"
            /\ nfa_log[k].after = a
            /\ r # Thrown
            /\ size(r) = size(a) + size(b) + 2
            /\ Cardinality(added) = 4
            /\ \A i \in DOMAIN r : \A j \in DOMAIN r :
                   r[i][j] =
                       IF <<i, j>> \in added THEN epsilon
                       ELSE IF i \in 1..size(a) /\ j \in 1..size(a)
                       THEN a[i - 1][j - 1]
                       ELSE IF /\ i \in (1 + size(a))..(size(a) + size(b))
                               /\ j \in (1 + size(a))..(size(a) + size(b))
                       THEN b[i - 1 - size(a)][j - 1 - size(a)]
                       ELSE no_edge

\* The call of the test: build_alternation of the literals a and b.
C20_Witness ==
    /\ nfa_log # << >>
    /\ Len(nfa_log) \in Alternated
    /\ LastCall.before = build_literal(CH_a)
    /\ LastCall.other = build_literal(CH_b)
    /\ size(LastCall.ret) = 6
    /\ LastCall.ret[0][1] = epsilon /\ LastCall.ret[0][3] = epsilon
    /\ LastCall.ret[1][2] = CH_a /\ LastCall.ret[3][4] = CH_b
    /\ LastCall.ret[2][5] = epsilon /\ LastCall.ret[4][5] = epsilon

\* ------------------------------------------------------------------------
\* The library as a whole: an nfa object called directly, or a pattern
\* parsed and compiled
\* ------------------------------------------------------------------------

InitAll == Init \/ InitNfa

NextAll == Next \/ NextNfa

SpecAll == InitAll /\ [][NextAll]_vars

\* The tables the test parse() of src/test/main.cpp assembles by hand for
\* the patterns (a|b)*cde and a(b|c)*|d.
Expected1 ==
    build_concatenation(
        build_kleene_star(build_alternation(build_literal(CH_a), build_literal(CH_b))),
        build_concatenation(build_concatenation(build_literal(CH_c), build_literal(CH_d)),
                            build_literal(CH_e)))

Expected2 ==
    build_alternation(
        build_concatenation(
            build_literal(CH_a),
            build_kleene_star(build_alternation(build_literal(CH_b), build_literal(CH_c)))),
        build_literal(CH_d))

\* C21: concatenation is associative on tables: when a.chain(b) and then
\* chain(c) returned on automata of at least two states, the object holds
\* the table of concatenation(a, concatenation(b, c)).  And the first
\* parse() of (a|b)*cde returns kleene_star(alternation(a, b)) chained with
\* the automaton built for cde, the first parse() of a(b|c)*|d returns
\* alternation(concatenation(a, kleene_star(alternation(b, c))), d).
C21_ConcatenationAssociative ==
    /\ \A k \in Chained :
            (/\ k + 1 \in Chained
             /\ size(nfa_log[k].before) >= 2
             /\ size(nfa_log[k].other) >= 2
             /\ size(nfa_log[k + 1].other) >= 2)
                => nfa_log[k + 1].after
                       = build_concatenation(
                             nfa_log[k].before,
                             build_concatenation(nfa_log[k].other, nfa_log[k + 1].other))
    /\ (results # << >>
         /\ regex_ = <<LPAREN, CH_a, PIPE, CH_b, RPAREN, STAR, CH_c, CH_d, CH_e>>)
            => /\ results[1].status = "returned"
               /\ results[1].nfa = Expected1
    /\ (results # << >>
         /\ regex_ = <<CH_a, LPAREN, CH_b, PIPE, CH_c, RPAREN, STAR, PIPE, CH_d>>)
            => /\ results[1].status = "returned"
               /\ results[1].nfa = Expected2

\* Two chain calls on automata with edges back from their final states.
C21_Witness ==
    /\ Len(nfa_log) = 2
    /\ 1 \in Chained /\ 2 \in Chained
    /\ nfa_log[1].before = add_transition(build_literal(CH_a), 1, 0, epsilon)
    /\ nfa_log[1].other = add_transition(nfa_new(2), 1, 0, CH_a)
    /\ nfa_log[2].other = build_literal(CH_b)
    /\ size(nfa_this) = 4
    /\ nfa_this[1][0] = epsilon
    /\ nfa_this[2][1] = CH_a
    /\ nfa_this[2][3] = CH_b

\* ------------------------------------------------------------------------
\* The terminal entry of the subset construction, under SpecDfa
\* ------------------------------------------------------------------------

\* C22: when the loop of the subset construction has completed, the table
\* holds no entry keyed by {final_state_}: the assertion before the insertion
\* of the terminal entry never fails, and the insertion replaces no recorded
\* transitions.
C22_TerminalEntryFresh ==
    /\ dfa_pc # "abort"
    /\ (dfa_pc = "while" /\ to_process = << >>)
           => {final_state_} \notin DOMAIN transition_table_

\* ------------------------------------------------------------------------
\* Repeated calls of parse(), under Spec
\* ------------------------------------------------------------------------

\* C23: in a run without undefined behaviour, after a call of parse() has
\* failed with MissingOperand every later call on the same object fails too
\* and returns no automaton.
C23_FailedStaysFailed ==
    ~ub => \A i \in DOMAIN results : \A j \in DOMAIN results :
               (i < j /\ results[i].status = MissingOperand)
                   => /\ results[j].status \in Failures
                      /\ results[j].nfa = Thrown

\* ------------------------------------------------------------------------
\* The shape of the automata of the builders, under Spec
\* ------------------------------------------------------------------------

\* At least two states, no edge out of the final state, no edge into the
\* start state, no edge from a state to itself.
WellFormed(t) ==
    /\ size(t) >= 2
    /\ \A to \in DOMAIN t : t[final_state(t)][to] = no_edge
    /\ \A from \in DOMAIN t : t[from][start_state(t)] = no_edge
    /\ \A s \in DOMAIN t : t[s][s] = no_edge

\* The automata obtained from literals by at most MaxOps builder
\* applications.
Buildable == UNION {Built(k) : k \in 0..MaxOps}

\* Every automaton of at most MaxOps builder applications is well formed.
BuildableWellFormed == \A t \in Buildable : WellFormed(t)

\* C24: every automaton obtained from literals by the builders is well
\* formed: those of at most MaxOps applications, every fragment the parser
\* holds on its output stack, and every automaton parse() returns from that
\* stack.
C24_BuiltWellFormed ==
    /\ BuildableWellFormed
    /\ \A i \in DOMAIN output_ : WellFormed(output_[i])
    /\ \A i \in DOMAIN results :
           (results[i].status = "returned" /\ results[i].output # << >>)
               => WellFormed(results[i].nfa)

\* parse() of (a|b)*abb has returned: an automaton in which a star, an
\* alternation and three concatenations are nested.
C24_Witness ==
    /\ regex_ = <<LPAREN, CH_a, PIPE, CH_b, RPAREN, STAR, CH_a, CH_b, CH_b>>
    /\ results # << >>
    /\ results[1].status = "returned"
    /\ size(results[1].nfa) = 11
    /\ results[1].nfa[6][1] = epsilon
    /\ results[1].nfa[6][7] = epsilon
====
